---- MODULE Spec2Model ----
(***************************************************************************)
(* Model of Silicon/CoffeelakePkg/Library/FirmwareUpdateLib/               *)
(* FirmwareUpdateLib.c: the region layout arithmetic and update plan of    *)
(* GetFirmwareUpdateInfo, the Stage1A locator PlatformGetStage1AOffset,     *)
(* the top-swap switch SetBootPartition and the lifecycle hooks            *)
(* PrepareRegionsUpdate and EndFirmwareUpdate.                             *)
(*                                                                         *)
(* Machine integers are kept at their C width.  A value is a tuple of four *)
(* 16-bit limbs, most significant first, so a UINT64 is the whole tuple    *)
(* and a UINT32 has its two upper limbs zero.                              *)
(***************************************************************************)
EXTENDS Integers, Sequences, FiniteSets, TLC

VARIABLES
  FlashMap,       \* GetFlashMapPtr(): NULL or the platform's flash map
  PtrBits,        \* width of UINTN and of pointers in this build: 32 or 64
  TopSwapReg,     \* contents of the R_RTC_PCR_BUC register (UINT32)
  CmosIndex,      \* byte last written to the CMOS index port CMOS_ADDREG
  CmosFlag,       \* CMOS data byte at FWU_BOOT_MODE_OFFSET
  PartitionInfo,  \* caller's slot written through FIRMWARE_UPDATE_PARTITION **
  Base,           \* caller's slot written through UINT32 *Base
  Size,           \* caller's slot written through UINT32 *Size
  Leaked,         \* pool blocks allocated by the library and handed to nobody
  last            \* the last call: operation, arguments, status, port accesses

vars == <<FlashMap, PtrBits, TopSwapReg, CmosIndex, CmosFlag,
          PartitionInfo, Base, Size, Leaked, last>>

\* a null pointer
NULL == [null |-> TRUE]

-----------------------------------------------------------------------------
(* Bounds of the model *)

\* region sizes of the generic flash maps are 1..MaxSize bytes
MaxSize == 2
\* ROM sizes of the generic flash maps are 0..MaxRom bytes
MaxRom == 10
\* calls that leak a pool block are followed up to this many leaked blocks
MaxLeaked == 2

-----------------------------------------------------------------------------
(* Program constants *)

FWU_BOOT_MODE_OFFSET == 64
FWU_BOOT_MODE_VALUE == 90
\* sizeof (EFI_FW_MGMT_CAP_IMAGE_HEADER)
CapImageHeaderSize == 40

-----------------------------------------------------------------------------
(* Fixed-width unsigned arithmetic *)

LimbBase == 2^16

FromNat(n) == <<0, 0, n \div LimbBase, n % LimbBase>>

\* x + y of UINT64 operands, modulo 2^64
AddW(x, y) ==
  LET s4 == x[4] + y[4]
      s3 == x[3] + y[3] + (s4 \div LimbBase)
      s2 == x[2] + y[2] + (s3 \div LimbBase)
      s1 == x[1] + y[1] + (s2 \div LimbBase)
  IN  <<s1 % LimbBase, s2 % LimbBase, s3 % LimbBase, s4 % LimbBase>>

\* x - y of UINT64 operands, modulo 2^64
SubW(x, y) ==
  LET d4 == x[4] - y[4]
      d3 == x[3] - y[3] - (IF d4 < 0 THEN 1 ELSE 0)
      d2 == x[2] - y[2] - (IF d3 < 0 THEN 1 ELSE 0)
      d1 == x[1] - y[1] - (IF d2 < 0 THEN 1 ELSE 0)
  IN  <<d1 % LimbBase, d2 % LimbBase, d3 % LimbBase, d4 % LimbBase>>

\* the (UINT32) cast
Trunc32(x) == <<0, 0, x[3], x[4]>>

\* the (UINTN) cast and the width of a pointer
TruncN(x, bits) == IF bits = 32 THEN Trunc32(x) ELSE x

\* UINT32 arithmetic wraps modulo 2^32
Add32(x, y) == Trunc32(AddW(x, y))
Sub32(x, y) == Trunc32(SubW(x, y))

Zero == FromNat(0)
\* 0x100000000ULL, the address just above the memory-mapped BIOS region
TopAddress == <<0, 1, 0, 0>>

-----------------------------------------------------------------------------
(* Region layout of GetFirmwareUpdateInfo *)

\* BIOS region layout, top of the ROM first:
\*   Top Swap, Top Swap Backup, Redundant, Redundant Backup, Non Redundant

NonRedundantRegionOffset_SingleCopy(RomSize, TopSwapRegionSize, RedundantRegionSize, NonRedundantRegionSize) ==
  Sub32(Sub32(RomSize, Add32(TopSwapRegionSize, RedundantRegionSize)),
        NonRedundantRegionSize)

\* RomSize - (TopSwapRegionSize + RedundantRegionSize) * 2 - NonRedundantRegionSize
NonRedundantRegionOffset(RomSize, TopSwapRegionSize, RedundantRegionSize, NonRedundantRegionSize) ==
  LET Pair == Add32(TopSwapRegionSize, RedundantRegionSize)
  IN  Sub32(Sub32(RomSize, Add32(Pair, Pair)), NonRedundantRegionSize)

TopSwapRegionOffset_IgnoreCopy(RomSize, TopSwapRegionSize, UpdatePartitionB) ==
  Sub32(RomSize, TopSwapRegionSize)

\* RomSize - TopSwapRegionSize, and one more TopSwapRegionSize down for copy B
TopSwapRegionOffset(RomSize, TopSwapRegionSize, UpdatePartitionB) ==
  LET CopyA == Sub32(RomSize, TopSwapRegionSize)
  IN  IF UpdatePartitionB = 1 THEN Sub32(CopyA, TopSwapRegionSize) ELSE CopyA

RedundantRegionOffset_NoBackupGap(RomSize, TopSwapRegionSize, RedundantRegionSize, UpdatePartitionB) ==
  LET CopyA == Sub32(Sub32(RomSize, TopSwapRegionSize), RedundantRegionSize)
  IN  IF UpdatePartitionB = 1 THEN Sub32(CopyA, RedundantRegionSize) ELSE CopyA

\* (RomSize - TopSwapRegionSize) - TopSwapRegionSize - RedundantRegionSize,
\* and one more RedundantRegionSize down for copy B
RedundantRegionOffset(RomSize, TopSwapRegionSize, RedundantRegionSize, UpdatePartitionB) ==
  LET CopyA == Sub32(Sub32(Sub32(RomSize, TopSwapRegionSize), TopSwapRegionSize),
                     RedundantRegionSize)
  IN  IF UpdatePartitionB = 1 THEN Sub32(CopyA, RedundantRegionSize) ELSE CopyA

\* Regions 0 and 1:
\*   (UINT8 *)((UINTN)ImageHdr + sizeof (hdr) + (UINTN)UpdateRegion->ToUpdateAddress)
SourceAddress(ImageHdr, ToUpdateAddress, bits) ==
  TruncN(AddW(AddW(TruncN(ImageHdr, bits), FromNat(CapImageHeaderSize)),
              TruncN(ToUpdateAddress, bits)), bits)

\* Region 2:
\*   (UINT8 *)((UINT32)ImageHdr + sizeof (hdr) + NonRedundantRegionOffset)
\* sizeof is a UINTN, so the sum is made at UINTN width of a 32-bit ImageHdr
SourceAddressNonRedundant(ImageHdr, ToUpdateAddress, bits) ==
  TruncN(AddW(AddW(Trunc32(ImageHdr), FromNat(CapImageHeaderSize)),
              ToUpdateAddress), bits)

IncludeNonRedundant_PartAOnly(StateMachine) ==
  StateMachine = "FW_UPDATE_SM_PART_A"

\* the non-redundant region is in the plan in these two states only
IncludeNonRedundant(StateMachine) ==
  \/ StateMachine = "FW_UPDATE_SM_PART_A"
  \/ StateMachine = "FW_UPDATE_SM_PART_B"

\* AllocateZeroPool: every region of the block starts as zeroes
ZeroRegion ==
  [ToUpdateAddress |-> Zero, UpdateSize |-> Zero, SourceAddress |-> Zero]

\* the FIRMWARE_UPDATE_PARTITION the function fills: FwRegion[0], [1] and,
\* in the two states above, [2]
UpdatePartition(Map, ImageHdr, FwPolicy, bits) ==
  LET TopSwapOff == TopSwapRegionOffset(Map.RomSize, Map.TopSwapRegionSize,
                                        FwPolicy.UpdatePartitionB)
      RedundantOff == RedundantRegionOffset(Map.RomSize, Map.TopSwapRegionSize,
                                            Map.RedundantRegionSize,
                                            FwPolicy.UpdatePartitionB)
      NonRedundantOff == NonRedundantRegionOffset(Map.RomSize, Map.TopSwapRegionSize,
                                                  Map.RedundantRegionSize,
                                                  Map.NonRedundantRegionSize)
      Region0 == [ToUpdateAddress |-> TopSwapOff,
                  UpdateSize      |-> Map.TopSwapRegionSize,
                  SourceAddress   |-> SourceAddress(ImageHdr, TopSwapOff, bits)]
      Region1 == [ToUpdateAddress |-> RedundantOff,
                  UpdateSize      |-> Map.RedundantRegionSize,
                  SourceAddress   |-> SourceAddress(ImageHdr, RedundantOff, bits)]
      Region2 == [ToUpdateAddress |-> NonRedundantOff,
                  UpdateSize      |-> Map.NonRedundantRegionSize,
                  SourceAddress   |-> SourceAddressNonRedundant(ImageHdr, NonRedundantOff, bits)]
  IN  IF IncludeNonRedundant(FwPolicy.StateMachine)
        THEN [RegionCount |-> 3, FwRegion |-> <<Region0, Region1, Region2>>]
        ELSE [RegionCount |-> 2, FwRegion |-> <<Region0, Region1, ZeroRegion>>]

-----------------------------------------------------------------------------
(* Stage1A locator *)

\* GetComponentInfoByPartition (FLASH_MAP_SIG_STAGE1A, IsBackupPartition, Base, Size):
\* the flash map's entry of the asked copy, written through Base and Size,
\* or EFI_NOT_FOUND with the slots untouched
GetComponentInfoByPartition(Map, IsBackupPartition, CurBase, CurSize) ==
  LET Entry == IF IsBackupPartition THEN Map.Stage1A.backup ELSE Map.Stage1A.primary
  IN  IF Entry = NULL
        THEN [Status |-> "EFI_NOT_FOUND", Base |-> CurBase, Size |-> CurSize]
        ELSE [Status |-> "EFI_SUCCESS", Base |-> Entry.Base, Size |-> Entry.Size]

FallbackToPrimary_Never(IsBackupPartition, Status) == FALSE

\* IsBackupPartition && (Status == EFI_NOT_FOUND)
FallbackToPrimary(IsBackupPartition, Status) ==
  IsBackupPartition /\ Status = "EFI_NOT_FOUND"

\* the lookup, and the second lookup of the primary copy
Stage1AInfo(Map, IsBackupPartition, CurBase, CurSize) ==
  LET First == GetComponentInfoByPartition(Map, IsBackupPartition, CurBase, CurSize)
  IN  IF FallbackToPrimary(IsBackupPartition, First.Status)
        THEN GetComponentInfoByPartition(Map, FALSE, First.Base, First.Size)
        ELSE First

\* (UINT32)(FlashMap->RomSize - (0x100000000ULL - *Base))
BiosRegionOffset(RomSize, ComponentBase) ==
  Trunc32(SubW(RomSize, SubW(TopAddress, ComponentBase)))

\* (UINT32)((UINTN)ImageHdr + sizeof (EFI_FW_MGMT_CAP_IMAGE_HEADER) + *Base)
CapsuleAddress(ImageHdr, Offset, bits) ==
  Trunc32(TruncN(AddW(AddW(TruncN(ImageHdr, bits), FromNat(CapImageHeaderSize)),
                      Offset), bits))

-----------------------------------------------------------------------------
(* Top-swap register and the CMOS flag *)

Bit0(Data32) == Data32[4] % 2

TopSwapData_Toggle(Data32, Partition) ==
  IF Partition \in {"BackupPartition", "PrimaryPartition"}
    THEN <<Data32[1], Data32[2], Data32[3], Data32[4] + 1 - 2 * Bit0(Data32)>>
    ELSE Data32

\* Data32 |= BIT0 for the backup partition, Data32 &= ~BIT0 for the primary
TopSwapData(Data32, Partition) ==
  IF Partition = "BackupPartition"
    THEN <<Data32[1], Data32[2], Data32[3], Data32[4] + 1 - Bit0(Data32)>>
    ELSE IF Partition = "PrimaryPartition"
      THEN <<Data32[1], Data32[2], Data32[3], Data32[4] - Bit0(Data32)>>
      ELSE Data32

NeedsClear_Inverted(FirmwareUpdateStatus) == FirmwareUpdateStatus = 0

\* FirmwareUpdateStatus != 0
NeedsClear(FirmwareUpdateStatus) == FirmwareUpdateStatus # 0

IoWrite8(Port, Value) == [dir |-> "write", port |-> Port, val |-> Value]
IoRead8(Port, Value) == [dir |-> "read", port |-> Port, val |-> Value]

\* the port accesses of EndFirmwareUpdate when the flag byte reads Flag
EndFirmwareUpdateIo(Flag) ==
  LET Probe == <<IoWrite8("CMOS_ADDREG", FWU_BOOT_MODE_OFFSET),
                 IoRead8("CMOS_DATAREG", Flag)>>
  IN  IF NeedsClear(Flag)
        THEN Probe \o <<IoWrite8("CMOS_ADDREG", FWU_BOOT_MODE_OFFSET),
                        IoWrite8("CMOS_DATAREG", 0),
                        IoRead8("CMOS_DATAREG", 0)>>
        ELSE Probe

\* the CMOS cell selected by FWU_BOOT_MODE_OFFSET after those accesses
FlagAfter(Io, Flag) ==
  LET DataWrites == {i \in 1..Len(Io) :
                       Io[i].dir = "write" /\ Io[i].port = "CMOS_DATAREG"}
  IN  IF DataWrites = {}
        THEN Flag
        ELSE Io[CHOOSE i \in DataWrites : \A j \in DataWrites : j <= i].val

-----------------------------------------------------------------------------
(* The calls *)

NoPolicy == [UpdatePartitionB |-> 0, StateMachine |-> "none"]

Call(Op, Status) ==
  [op |-> Op, Status |-> Status, ImageHdr |-> Zero, FwPolicy |-> NoPolicy,
   Partition |-> "none", IsBackupPartition |-> FALSE,
   BaseNull |-> FALSE, SizeNull |-> FALSE, Io |-> << >>]

\* SetBootPartition (Partition)
SetBootPartition(Partition) ==
  /\ TopSwapReg' = TopSwapData(TopSwapReg, Partition)
  /\ last' = [Call("SetBootPartition", "EFI_SUCCESS") EXCEPT !.Partition = Partition]
  /\ UNCHANGED <<FlashMap, PtrBits, CmosIndex, CmosFlag, PartitionInfo, Base, Size, Leaked>>

\* PlatformGetStage1AOffset (ImageHdr, IsBackupPartition, Base, Size);
\* BaseNull and SizeNull say that the caller passed a null pointer
PlatformGetStage1AOffset(ImageHdr, IsBackupPartition, BaseNull, SizeNull) ==
  LET Args(Status) ==
        [Call("PlatformGetStage1AOffset", Status) EXCEPT
           !.ImageHdr = ImageHdr, !.IsBackupPartition = IsBackupPartition,
           !.BaseNull = BaseNull, !.SizeNull = SizeNull]
      Info == Stage1AInfo(FlashMap, IsBackupPartition, Base, Size)
  IN  /\ IF BaseNull \/ SizeNull
           THEN /\ last' = Args("EFI_INVALID_PARAMETER")
                /\ UNCHANGED <<Base, Size>>
           ELSE IF FlashMap = NULL
             THEN /\ last' = Args("EFI_NOT_FOUND")
                  /\ UNCHANGED <<Base, Size>>
             ELSE IF Info.Status # "EFI_SUCCESS"
               THEN /\ last' = Args(Info.Status)
                    /\ Base' = Info.Base
                    /\ Size' = Info.Size
               ELSE /\ last' = Args("EFI_SUCCESS")
                    /\ Base' = CapsuleAddress(ImageHdr,
                                  BiosRegionOffset(FlashMap.RomSize, Info.Base), PtrBits)
                    /\ Size' = Info.Size
      /\ UNCHANGED <<FlashMap, PtrBits, TopSwapReg, CmosIndex, CmosFlag,
                     PartitionInfo, Leaked>>

\* GetFirmwareUpdateInfo (ImageHdr, FwPolicy, PartitionInfo).  The pool block
\* is allocated before the flash map is looked at (ASSERT: the allocation
\* succeeds), and the early return neither frees it nor hands it over.
GetFirmwareUpdateInfo(ImageHdr, FwPolicy) ==
  LET Args(Status) ==
        [Call("GetFirmwareUpdateInfo", Status) EXCEPT
           !.ImageHdr = ImageHdr, !.FwPolicy = FwPolicy]
  IN  /\ IF FlashMap = NULL
           THEN /\ Leaked < MaxLeaked
                /\ Leaked' = Leaked + 1
                /\ last' = Args("EFI_NOT_FOUND")
                /\ UNCHANGED PartitionInfo
           ELSE /\ PartitionInfo' = UpdatePartition(FlashMap, ImageHdr, FwPolicy, PtrBits)
                /\ last' = Args("EFI_SUCCESS")
                /\ UNCHANGED Leaked
      /\ UNCHANGED <<FlashMap, PtrBits, TopSwapReg, CmosIndex, CmosFlag, Base, Size>>

\* PrepareRegionsUpdate (UpdatePartition): nothing but EFI_SUCCESS
PrepareRegionsUpdate ==
  /\ last' = Call("PrepareRegionsUpdate", "EFI_SUCCESS")
  /\ UNCHANGED <<FlashMap, PtrBits, TopSwapReg, CmosIndex, CmosFlag,
                 PartitionInfo, Base, Size, Leaked>>

\* EndFirmwareUpdate ()
EndFirmwareUpdate ==
  LET Io == EndFirmwareUpdateIo(CmosFlag)
  IN  /\ CmosIndex' = FWU_BOOT_MODE_OFFSET
      /\ CmosFlag' = FlagAfter(Io, CmosFlag)
      /\ last' = [Call("EndFirmwareUpdate", "EFI_SUCCESS") EXCEPT !.Io = Io]
      /\ UNCHANGED <<FlashMap, PtrBits, TopSwapReg, PartitionInfo, Base, Size, Leaked>>

-----------------------------------------------------------------------------
(* Flash maps, builds and inputs *)

Geometry(RomSize, TopSwapRegionSize, RedundantRegionSize, NonRedundantRegionSize) ==
  [RomSize |-> RomSize, TopSwapRegionSize |-> TopSwapRegionSize,
   RedundantRegionSize |-> RedundantRegionSize,
   NonRedundantRegionSize |-> NonRedundantRegionSize]

\* 16 MiB ROM, 64 KiB top swap, 1 MiB redundant, 2 MiB non-redundant regions
ScenarioGeometry ==
  Geometry(FromNat(16777216), FromNat(65536), FromNat(1048576), FromNat(2097152))

GenericGeometries ==
  {Geometry(FromNat(r), FromNat(t), FromNat(d), FromNat(n)) :
     r \in 0..MaxRom, t \in 1..MaxSize, d \in 1..MaxSize, n \in 1..MaxSize}

\* an exactly filled ROM and an empty one, with one-byte regions
UnitGeometries ==
  {Geometry(FromNat(r), FromNat(1), FromNat(1), FromNat(1)) : r \in {0, 5}}

\* Stage1A fills the top swap region: the primary copy ends at the top
\* address, the backup copy right below it
Stage1APrimary(g) ==
  [Base |-> Sub32(Zero, g.TopSwapRegionSize), Size |-> g.TopSwapRegionSize]
Stage1ABackup(g) ==
  [Base |-> Sub32(Sub32(Zero, g.TopSwapRegionSize), g.TopSwapRegionSize),
   Size |-> g.TopSwapRegionSize]

FlashMapOf(g, HasPrimary, HasBackup) ==
  [RomSize |-> g.RomSize, TopSwapRegionSize |-> g.TopSwapRegionSize,
   RedundantRegionSize |-> g.RedundantRegionSize,
   NonRedundantRegionSize |-> g.NonRedundantRegionSize,
   Stage1A |-> [primary |-> IF HasPrimary THEN Stage1APrimary(g) ELSE NULL,
                backup  |-> IF HasBackup THEN Stage1ABackup(g) ELSE NULL]]

\* capsule images below and, in a 64-bit build, above 4 GiB
ImageHdrs(bits) ==
  IF bits = 32 THEN {<<0, 0, 16, 0>>} ELSE {<<0, 0, 16, 0>>, <<0, 1, 16, 0>>}

StateMachines ==
  {"FW_UPDATE_SM_INIT", "FW_UPDATE_SM_PART_A", "FW_UPDATE_SM_PART_B", "FW_UPDATE_SM_DONE"}

FwPolicies ==
  [UpdatePartitionB : {0, 1}, StateMachine : StateMachines]

Partitions == {"PrimaryPartition", "BackupPartition", "OtherPartition"}

\* register contents at entry: top swap clear or set, other bits set
TopSwapRegs == {<<0, 0, 32768, 4>>, <<0, 0, 32768, 5>>}

CmosFlags == {0, FWU_BOOT_MODE_VALUE}

-----------------------------------------------------------------------------
(* Specifications *)

InitCaller ==
  /\ PartitionInfo = NULL
  /\ Base = Zero
  /\ Size = Zero
  /\ Leaked = 0
  /\ last = Call("none", "EFI_SUCCESS")

\* every operation of the library on a platform with few flash geometries
Init ==
  /\ FlashMap \in {NULL} \cup
       {FlashMapOf(g, p, b) : g \in {ScenarioGeometry} \cup UnitGeometries,
                              p \in BOOLEAN, b \in BOOLEAN}
  /\ PtrBits \in {32, 64}
  /\ TopSwapReg \in TopSwapRegs
  /\ CmosIndex = 0
  /\ CmosFlag \in CmosFlags
  /\ InitCaller

Next ==
  \/ \E Partition \in Partitions : SetBootPartition(Partition)
  \/ \E ImageHdr \in ImageHdrs(PtrBits), IsBackupPartition \in BOOLEAN,
        BaseNull \in BOOLEAN, SizeNull \in BOOLEAN :
       PlatformGetStage1AOffset(ImageHdr, IsBackupPartition, BaseNull, SizeNull)
  \/ \E ImageHdr \in ImageHdrs(PtrBits), FwPolicy \in FwPolicies :
       GetFirmwareUpdateInfo(ImageHdr, FwPolicy)
  \/ PrepareRegionsUpdate
  \/ EndFirmwareUpdate

Spec == Init /\ [][Next]_vars

\* the update planner on every generic flash geometry
InitLayout ==
  /\ FlashMap \in {NULL} \cup
       {FlashMapOf(g, TRUE, TRUE) : g \in {ScenarioGeometry} \cup GenericGeometries}
  /\ PtrBits \in {32, 64}
  /\ TopSwapReg = Zero
  /\ CmosIndex = 0
  /\ CmosFlag = FWU_BOOT_MODE_VALUE
  /\ InitCaller

NextLayout ==
  \/ \E ImageHdr \in ImageHdrs(PtrBits), FwPolicy \in FwPolicies :
       GetFirmwareUpdateInfo(ImageHdr, FwPolicy)
  \/ PrepareRegionsUpdate

SpecLayout == InitLayout /\ [][NextLayout]_vars

-----------------------------------------------------------------------------
(* Properties *)

\* the last call was GetFirmwareUpdateInfo and it handed back a plan
PlanReturned ==
  /\ last.op = "GetFirmwareUpdateInfo"
  /\ last.Status = "EFI_SUCCESS"

\* comparison of unbounded values
LtW(x, y) ==
  \/ x[1] < y[1]
  \/ x[1] = y[1] /\ x[2] < y[2]
  \/ x[1] = y[1] /\ x[2] = y[2] /\ x[3] < y[3]
  \/ x[1] = y[1] /\ x[2] = y[2] /\ x[3] = y[3] /\ x[4] < y[4]

LeW(x, y) == x = y \/ LtW(x, y)

\* 2*(topSwapSize+redundantSize)+nonRedundantSize, as an unbounded sum
LayoutNeed(Map) ==
  LET Pair == AddW(Map.TopSwapRegionSize, Map.RedundantRegionSize)
  IN  AddW(AddW(Pair, Pair), Map.NonRedundantRegionSize)

\* all region sizes > 0 and the five regions fit in the ROM
ValidLayout(Map) ==
  /\ Map.TopSwapRegionSize # Zero
  /\ Map.RedundantRegionSize # Zero
  /\ Map.NonRedundantRegionSize # Zero
  /\ LeW(LayoutNeed(Map), Map.RomSize)

\* one past the last byte of a region, as an unbounded sum
RegionEnd(Region) == AddW(Region.ToUpdateAddress, Region.UpdateSize)

Disjoint(R1, R2) ==
  \/ LeW(RegionEnd(R1), R2.ToUpdateAddress)
  \/ LeW(RegionEnd(R2), R1.ToUpdateAddress)

IsScenario(Map) ==
  /\ Map.RomSize = ScenarioGeometry.RomSize
  /\ Map.TopSwapRegionSize = ScenarioGeometry.TopSwapRegionSize
  /\ Map.RedundantRegionSize = ScenarioGeometry.RedundantRegionSize
  /\ Map.NonRedundantRegionSize = ScenarioGeometry.NonRedundantRegionSize

\* C1: for a valid flash geometry and either target copy, the regions of the
\* returned plan lie within [0, RomSize) and are pairwise disjoint.
C1_RegionsDisjointInRom ==
  (PlanReturned /\ ValidLayout(FlashMap)) =>
    LET Regions == PartitionInfo.FwRegion
        N == PartitionInfo.RegionCount
    IN  /\ \A i \in 1..N : LeW(RegionEnd(Regions[i]), FlashMap.RomSize)
        /\ \A i \in 1..N : \A j \in 1..N :
             i < j => Disjoint(Regions[i], Regions[j])

C1_Witness ==
  /\ PlanReturned
  /\ ValidLayout(FlashMap)
  /\ PartitionInfo.RegionCount = 3
  /\ last.FwPolicy.UpdatePartitionB = 1
  /\ FlashMap.TopSwapRegionSize = FromNat(2)
  /\ FlashMap.RedundantRegionSize = FromNat(1)

\* C2: when the five regions do not fit in the ROM, GetFirmwareUpdateInfo
\* fails with LayoutOverflow and hands back no plan.
C2_OverflowRejected ==
  (last.op = "GetFirmwareUpdateInfo" /\ FlashMap # NULL /\ ~ValidLayout(FlashMap)) =>
    /\ last.Status = "LayoutOverflow"
    /\ PartitionInfo = NULL

\* C3 as stated: on the 16 MiB scenario the plan's offsets are 0xFF0000,
\* 0xEF0000, 0xC00000 for copy A and 0xFE0000, 0xDF0000, 0xC00000 for copy B.
C3_ScenarioOffsetsAsStated ==
  (PlanReturned /\ IsScenario(FlashMap)) =>
    LET Regions == PartitionInfo.FwRegion
    IN  /\ last.FwPolicy.UpdatePartitionB = 0 =>
             /\ Regions[1].ToUpdateAddress = FromNat(16711680)
             /\ Regions[2].ToUpdateAddress = FromNat(15663104)
        /\ last.FwPolicy.UpdatePartitionB = 1 =>
             /\ Regions[1].ToUpdateAddress = FromNat(16646144)
             /\ Regions[2].ToUpdateAddress = FromNat(14614528)
        /\ PartitionInfo.RegionCount = 3 =>
             Regions[3].ToUpdateAddress = FromNat(12582912)

\* C3, amended: on the 16 MiB scenario the plan's offsets are 0xFF0000,
\* 0xEE0000, 0xBE0000 for copy A and 0xFE0000, 0xDE0000, 0xBE0000 for copy B.
C3_ScenarioOffsets ==
  (PlanReturned /\ IsScenario(FlashMap)) =>
    LET Regions == PartitionInfo.FwRegion
    IN  /\ last.FwPolicy.UpdatePartitionB = 0 =>
             /\ Regions[1].ToUpdateAddress = FromNat(16711680)
             /\ Regions[2].ToUpdateAddress = FromNat(15597568)
        /\ last.FwPolicy.UpdatePartitionB = 1 =>
             /\ Regions[1].ToUpdateAddress = FromNat(16646144)
             /\ Regions[2].ToUpdateAddress = FromNat(14548992)
        /\ PartitionInfo.RegionCount = 3 =>
             Regions[3].ToUpdateAddress = FromNat(12451840)

C3_Witness ==
  /\ PlanReturned
  /\ IsScenario(FlashMap)
  /\ last.FwPolicy.UpdatePartitionB = 1
  /\ PartitionInfo.RegionCount = 3

\* C4: a returned plan holds TopSwap, Redundant, NonRedundant (3 regions) in
\* the states PART_A and PART_B and TopSwap, Redundant (2 regions) otherwise.
C4_RegionCountByState ==
  PlanReturned =>
    LET Regions == PartitionInfo.FwRegion
        InScope == last.FwPolicy.StateMachine \in
                     {"FW_UPDATE_SM_PART_A", "FW_UPDATE_SM_PART_B"}
    IN  /\ PartitionInfo.RegionCount = IF InScope THEN 3 ELSE 2
        /\ Regions[1].UpdateSize = FlashMap.TopSwapRegionSize
        /\ Regions[1].ToUpdateAddress =
             TopSwapRegionOffset(FlashMap.RomSize, FlashMap.TopSwapRegionSize,
                                 last.FwPolicy.UpdatePartitionB)
        /\ Regions[2].UpdateSize = FlashMap.RedundantRegionSize
        /\ Regions[2].ToUpdateAddress =
             RedundantRegionOffset(FlashMap.RomSize, FlashMap.TopSwapRegionSize,
                                   FlashMap.RedundantRegionSize,
                                   last.FwPolicy.UpdatePartitionB)
        /\ InScope =>
             /\ Regions[3].UpdateSize = FlashMap.NonRedundantRegionSize
             /\ Regions[3].ToUpdateAddress =
                  NonRedundantRegionOffset(FlashMap.RomSize, FlashMap.TopSwapRegionSize,
                                           FlashMap.RedundantRegionSize,
                                           FlashMap.NonRedundantRegionSize)

C4_Witness ==
  /\ PlanReturned
  /\ last.FwPolicy.StateMachine = "FW_UPDATE_SM_PART_B"
  /\ PartitionInfo.RegionCount = 3

\* C5: a plan for copy B made right after a plan for copy A has its TopSwap
\* offset exactly TopSwapRegionSize lower and its Redundant offset exactly
\* RedundantRegionSize lower, and the same NonRedundant offset.
C5_CopySymmetry ==
  [][ ( /\ PlanReturned
        /\ last.FwPolicy.UpdatePartitionB = 0
        /\ PlanReturned'
        /\ last'.FwPolicy.UpdatePartitionB = 1 ) =>
      LET A == PartitionInfo.FwRegion
          B == PartitionInfo'.FwRegion
      IN  /\ AddW(B[1].ToUpdateAddress, FlashMap.TopSwapRegionSize) = A[1].ToUpdateAddress
          /\ AddW(B[2].ToUpdateAddress, FlashMap.RedundantRegionSize) = A[2].ToUpdateAddress
          /\ (PartitionInfo.RegionCount = 3 /\ PartitionInfo'.RegionCount = 3) =>
               B[3].ToUpdateAddress = A[3].ToUpdateAddress
    ]_vars

\* C6: every region of a returned plan has SourceAddress = ImageHdr +
\* sizeof (header) + ToUpdateAddress at the full width of a pointer.
C6_SourceAtPointerWidth ==
  PlanReturned =>
    \A i \in 1..PartitionInfo.RegionCount :
      PartitionInfo.FwRegion[i].SourceAddress =
        TruncN(AddW(AddW(last.ImageHdr, FromNat(CapImageHeaderSize)),
                    PartitionInfo.FwRegion[i].ToUpdateAddress), PtrBits)

\* the address in the capsule of the flash-map address ComponentBase
InCapsule(ComponentBase) ==
  Trunc32(AddW(AddW(last.ImageHdr, FromNat(CapImageHeaderSize)),
               SubW(FlashMap.RomSize, SubW(TopAddress, ComponentBase))))

BackupLookup ==
  /\ last.op = "PlatformGetStage1AOffset"
  /\ last.IsBackupPartition
  /\ ~last.BaseNull
  /\ ~last.SizeNull
  /\ FlashMap # NULL

\* C7: asked for the backup copy, PlatformGetStage1AOffset returns the backup
\* entry when there is one, else the primary entry when there is one, each
\* translated into the capsule, and EFI_NOT_FOUND only when there is neither.
C7_BackupFallsBackToPrimary ==
  BackupLookup =>
    LET Primary == FlashMap.Stage1A.primary
        Backup == FlashMap.Stage1A.backup
    IN  /\ (Backup = NULL /\ Primary # NULL) =>
             /\ last.Status = "EFI_SUCCESS"
             /\ Base = InCapsule(Primary.Base)
             /\ Size = Primary.Size
        /\ Backup # NULL =>
             /\ last.Status = "EFI_SUCCESS"
             /\ Base = InCapsule(Backup.Base)
             /\ Size = Backup.Size
        /\ last.Status = "EFI_NOT_FOUND" <=> (Backup = NULL /\ Primary = NULL)

C7_Witness ==
  /\ BackupLookup
  /\ FlashMap.Stage1A.backup = NULL
  /\ FlashMap.Stage1A.primary # NULL
  /\ last.Status = "EFI_SUCCESS"
  /\ Size = FlashMap.Stage1A.primary.Size

\* C8: after SetBootPartition (BackupPartition) bit 0 of the top-swap register
\* is 1 and after SetBootPartition (PrimaryPartition) it is 0; a second call
\* in a row with the same target leaves the register as the first left it.
C8_SwitchSetsBitIdempotently ==
  /\ [](last.op = "SetBootPartition" =>
          /\ last.Partition = "BackupPartition" => Bit0(TopSwapReg) = 1
          /\ last.Partition = "PrimaryPartition" => Bit0(TopSwapReg) = 0)
  /\ [][ ( /\ last.op = "SetBootPartition"
           /\ last'.op = "SetBootPartition"
           /\ last'.Partition = last.Partition ) =>
         TopSwapReg' = TopSwapReg ]_vars

C8_Witness ==
  /\ last.op = "SetBootPartition"
  /\ last.Partition = "BackupPartition"
  /\ TopSwapReg = <<0, 0, 32768, 5>>

\* C9: a call of GetFirmwareUpdateInfo or PlatformGetStage1AOffset that
\* returns an error leaves the caller's slots, the pool, the top-swap
\* register and the CMOS flag as they were.
C9_ErrorsMutateNothing ==
  [][ ( /\ last'.op \in {"GetFirmwareUpdateInfo", "PlatformGetStage1AOffset"}
        /\ last'.Status # "EFI_SUCCESS" ) =>
      UNCHANGED <<PartitionInfo, Base, Size, Leaked, TopSwapReg, CmosFlag>>
    ]_vars

\* C10: EndFirmwareUpdate returns EFI_SUCCESS and leaves the flag zero; it
\* selects offset 0x40 and reads the flag, writes zero and reads again only
\* when the flag was not zero, and a second call in a row changes nothing.
C10_EndClearsFlag ==
  /\ [](last.op = "EndFirmwareUpdate" =>
          /\ last.Status = "EFI_SUCCESS"
          /\ CmosFlag = 0
          /\ Len(last.Io) \in {2, 5}
          /\ last.Io[1] = IoWrite8("CMOS_ADDREG", FWU_BOOT_MODE_OFFSET)
          /\ last.Io[2].dir = "read" /\ last.Io[2].port = "CMOS_DATAREG"
          /\ Len(last.Io) = 2 <=> last.Io[2].val = 0
          /\ Len(last.Io) = 5 =>
               /\ last.Io[3] = IoWrite8("CMOS_ADDREG", FWU_BOOT_MODE_OFFSET)
               /\ last.Io[4] = IoWrite8("CMOS_DATAREG", 0)
               /\ last.Io[5] = IoRead8("CMOS_DATAREG", 0))
  /\ [][ (last.op = "EndFirmwareUpdate" /\ last'.op = "EndFirmwareUpdate") =>
         UNCHANGED <<CmosFlag, CmosIndex, TopSwapReg, PartitionInfo, Base, Size, Leaked>>
       ]_vars

C10_Witness ==
  /\ last.op = "EndFirmwareUpdate"
  /\ Len(last.Io) = 5
  /\ last.Io[2].val = FWU_BOOT_MODE_VALUE
  /\ CmosFlag = 0

====
